---- MODULE Spec2Model ----
(***************************************************************************)
(* Model of the Caddy events webhook handler.  The repository holds two    *)
(* revisions of the handler: src/module.go (type EventsWebhook) and        *)
(* src/unnamed/part_000 (type EventWebhook, with an event-name binding).   *)
(* The variable impl says which revision the modelled instance runs.       *)
(* calls is the bag of Handle invocations and dispatches the bag of         *)
(* sendWebhook goroutines, each given by its state.                        *)
(* Durations are counted in whole seconds.                                 *)
(***************************************************************************)
EXTENDS Integers, Sequences, FiniteSets, Bags, TLC

VARIABLES impl, phase, cfg, cfgErr, instLog, calls, dispatches

vars == <<impl, phase, cfg, cfgErr, instLog, calls, dispatches>>

(***************************************************************************)
(* Bounds of the model.                                                    *)
(***************************************************************************)
MaxEvents == 2
MaxLines == 2

(***************************************************************************)
(* Input domains.                                                          *)
(***************************************************************************)
Impls == {"module", "part0"}

GoodURL == "http://hook.test/api"
URLs == {"", GoodURL}

EventNames == {"cert_obtained", "cert_renewed"}

Methods == {"", "PUT", "P T"}

HeaderKeys == {"X-Test", "content-type"}
HeaderVals == {"abc", "def"}

DurationStrings == {"5s", "0s", "-5s", "abc"}
JSONTimeouts == {0, 5, -5}

NilData == "nil"
GoodData == "D"
BadData == "chan"
Events ==
  {[name |-> "cert_obtained", ts |-> "T0", data |-> NilData],
   [name |-> "cert_renewed", ts |-> "T0", data |-> GoodData],
   [name |-> "cert_obtained", ts |-> "T0", data |-> BadData]}

Statuses == {199, 200, 299, 300}
Bodies == {<<"server error">>}

(***************************************************************************)
(* The configuration struct of a freshly created instance (Go zero values).*)
(* Headers is a nil map exactly when HeadersNil holds.                     *)
(***************************************************************************)
EmptyMap == [k \in {} |-> "abc"]

ZeroConfig ==
  [EventName |-> "", URL |-> "", Method |-> "", Headers |-> EmptyMap,
   HeadersNil |-> TRUE, Timeout |-> 0]

DefaultTimeout == 30

(***************************************************************************)
(* Caddyfile input.  A directive is the arguments that follow the module   *)
(* name on its line and the lines of its block, each a sequence of tokens. *)
(***************************************************************************)
ArgLists ==
  {<<>>, <<"">>, <<GoodURL>>, <<GoodURL, "extra">>,
   <<"cert_obtained", GoodURL>>, <<"cert_obtained", "">>,
   <<"cert_obtained", GoodURL, "extra">>}

HeaderLines ==
  {<<"header">>} \cup {<<"header", k>> : k \in HeaderKeys}
    \cup {<<"header", k, v>> : k \in HeaderKeys, v \in HeaderVals}

TimeoutLines == {<<"timeout">>} \cup {<<"timeout", s>> : s \in DurationStrings}

BlockLines == HeaderLines \cup TimeoutLines \cup {<<"bogus">>, <<"timeout", "5s", "bogus">>}

Blocks == UNION {[1..n -> BlockLines] : n \in 0..MaxLines}

(***************************************************************************)
(* time.ParseDuration on the duration strings of the model.                *)
(***************************************************************************)
ParseDuration(s) ==
  CASE s = "5s" -> [ok |-> TRUE, dur |-> 5]
    [] s = "0s" -> [ok |-> TRUE, dur |-> 0]
    [] s = "-5s" -> [ok |-> TRUE, dur |-> 0 - 5]
    [] OTHER -> [ok |-> FALSE, dur |-> 0]

(***************************************************************************)
(* Go map assignment m[key] = value.                                       *)
(***************************************************************************)
MapSet(m, key, value) ==
  [k \in DOMAIN m \cup {key} |-> IF k = key THEN value ELSE m[k]]

ParseOk(c) == [status |-> "ok", cfg |-> c, err |-> ""]
ParseErr(c, msg) == [status |-> "err", cfg |-> c, err |-> msg]
ParsePanic(c, msg) == [status |-> "panic", cfg |-> c, err |-> msg]

(***************************************************************************)
(* The header subdirective.  src/module.go makes the map before it stores; *)
(* src/unnamed/part_000 stores into whatever map the instance holds, and a *)
(* store into a nil map panics.                                            *)
(***************************************************************************)
HeaderCaseModule(c, l) ==
  LET c1 == IF c.HeadersNil THEN [c EXCEPT !.HeadersNil = FALSE] ELSE c
  IN IF Len(l) < 3 THEN ParseErr(c1, "wrong argument count")
     ELSE ParseOk([c1 EXCEPT !.Headers = MapSet(c1.Headers, l[2], l[3])])

HeaderCasePart0(c, l) ==
  IF Len(l) < 3 THEN ParseErr(c, "wrong argument count")
  ELSE IF c.HeadersNil THEN ParsePanic(c, "assignment to entry in nil map")
  ELSE ParseOk([c EXCEPT !.Headers = MapSet(c.Headers, l[2], l[3])])

HeaderCase(im, c, l) ==
  IF im = "module" THEN HeaderCaseModule(c, l) ELSE HeaderCasePart0(c, l)

TimeoutCase(c, l) ==
  IF Len(l) < 2 THEN ParseErr(c, "wrong argument count")
  ELSE LET p == ParseDuration(l[2])
       IN IF ~p.ok THEN ParseErr(c, "invalid timeout duration")
          ELSE ParseOk([c EXCEPT !.Timeout = p.dur])

(***************************************************************************)
(* The loop over d.NextBlock(0).  Tokens left on a line after the          *)
(* arguments a subdirective consumed are read as the next subdirective.    *)
(***************************************************************************)
RECURSIVE ParseBlock(_, _, _)
ParseBlock(im, c, lines) ==
  IF lines = <<>> THEN ParseOk(c)
  ELSE LET l == Head(lines)
           used == IF l[1] = "header" THEN 3 ELSE 2
           rest == IF Len(l) > used
                   THEN <<SubSeq(l, used + 1, Len(l))>> \o Tail(lines)
                   ELSE Tail(lines)
           r == CASE l[1] = "header" -> HeaderCase(im, c, l)
                  [] l[1] = "timeout" -> TimeoutCase(c, l)
                  [] OTHER -> ParseErr(c, "unrecognized subdirective")
       IN IF r.status = "ok" THEN ParseBlock(im, r.cfg, rest) ELSE r

RequireURL(r) ==
  IF r.status = "ok" /\ r.cfg.URL = ""
  THEN ParseErr(r.cfg, "webhook URL is required") ELSE r

(***************************************************************************)
(* UnmarshalCaddyfile of src/module.go: one positional argument, the URL.  *)
(* A further argument on the line is not an opening brace, so the block    *)
(* loop does not run.                                                      *)
(***************************************************************************)
UnmarshalModule(c, args, block) ==
  IF Len(args) = 0 THEN ParseErr(c, "webhook URL is not configured")
  ELSE LET c1 == [c EXCEPT !.URL = args[1]]
       IN RequireURL(IF Len(args) > 1 THEN ParseOk(c1)
                     ELSE ParseBlock("module", c1, block))

(***************************************************************************)
(* UnmarshalCaddyfile of src/unnamed/part_000: the event name, then the    *)
(* URL.  With a third argument the block loop does not run and the outer   *)
(* d.Next() loop starts over on that argument, which no URL follows.       *)
(***************************************************************************)
UnmarshalPart0(c, args, block) ==
  IF Len(args) = 0 THEN ParseErr(c, "webhook URL is not configured")
  ELSE LET c1 == [c EXCEPT !.EventName = args[1]]
       IN IF Len(args) = 1 THEN ParseErr(c1, "webhook URL is not configured")
          ELSE LET c2 == [c1 EXCEPT !.URL = args[2]]
               IN IF Len(args) > 2
                  THEN ParseErr(c2, "webhook URL is not configured")
                  ELSE RequireURL(ParseBlock("part0", c2, block))

Unmarshal(im, c, args, block) ==
  IF im = "module" THEN UnmarshalModule(c, args, block)
  ELSE UnmarshalPart0(c, args, block)

(***************************************************************************)
(* Configuration decoded from JSON straight into the struct fields.        *)
(***************************************************************************)
JSONHeaderMaps ==
  {EmptyMap, [k \in HeaderKeys |-> IF k = "X-Test" THEN "abc" ELSE "def"]}

JSONConfigs(im) ==
  {[EventName |-> en, URL |-> u, Method |-> m, Headers |-> h.map,
    HeadersNil |-> h.isNil, Timeout |-> t] :
     en \in (IF im = "part0" THEN {"", "cert_obtained"} ELSE {""}),
     u \in URLs, m \in Methods, t \in JSONTimeouts,
     h \in {[isNil |-> TRUE, map |-> EmptyMap]}
             \cup {[isNil |-> FALSE, map |-> hm] : hm \in JSONHeaderMaps}}

(***************************************************************************)
(* Provision: the logger, then the defaults.                               *)
(***************************************************************************)
DefaultMethod(m) == IF m = "" THEN "POST" ELSE m

(* Mutant: the default of ten seconds that the field's comment names. *)
DefaultedTimeoutTen(t) == IF t = 0 THEN 10 ELSE t

DefaultedTimeout(t) == IF t = 0 THEN DefaultTimeout ELSE t

ProvisionConfig(c) ==
  [c EXCEPT !.Method = DefaultMethod(c.Method),
            !.Timeout = DefaultedTimeout(c.Timeout),
            !.HeadersNil = FALSE]

ProvisionLog(im) ==
  IF im = "module" THEN <<[level |-> "info", msg |-> "module loaded"]>> ELSE <<>>

(***************************************************************************)
(* http.Header.Set stores under textproto.CanonicalMIMEHeaderKey(key).     *)
(***************************************************************************)
CanonicalMIMEHeaderKey(k) ==
  CASE k = "content-type" -> "Content-Type"
    [] OTHER -> k

HeaderSet(h, key, value) == MapSet(h, CanonicalMIMEHeaderKey(key), value)

(***************************************************************************)
(* for key, value := range Headers { req.Header.Set(key, value) }, with    *)
(* the keys visited in the order ord (Go leaves the order unspecified).    *)
(***************************************************************************)
RECURSIVE RangeSet(_, _, _)
RangeSet(h, m, ord) ==
  IF ord = <<>> THEN h
  ELSE RangeSet(HeaderSet(h, Head(ord), m[Head(ord)]), m, Tail(ord))

Orders(S) == {o \in [1..Cardinality(S) -> S] : \A k \in S : \E i \in DOMAIN o : o[i] = k}

(***************************************************************************)
(* The request headers.  src/module.go: User-Agent, the configured         *)
(* headers, then Content-Type.  src/unnamed/part_000: Content-Type, then   *)
(* the configured headers.                                                 *)
(***************************************************************************)
RequestHeadersModule(m, ord) ==
  HeaderSet(RangeSet(HeaderSet(EmptyMap, "User-Agent", "Caddy Event Webhook"), m, ord),
            "Content-Type", "application/json")

RequestHeadersPart0(m, ord) ==
  RangeSet(HeaderSet(EmptyMap, "Content-Type", "application/json"), m, ord)

RequestHeaders(im, m, ord) ==
  IF im = "module" THEN RequestHeadersModule(m, ord) ELSE RequestHeadersPart0(m, ord)

(***************************************************************************)
(* The payload map of sendWebhook: the key data only for non-nil Data.     *)
(***************************************************************************)
FormatRFC3339(t) == "rfc3339:" \o t

Now == "NOW"

(* Mutant: the key data is always written, null for an event without data. *)
BuildPayloadAlwaysData(e) ==
  [k \in {"event", "eventTimestamp", "timestamp", "data"} |->
     CASE k = "event" -> e.name
       [] k = "eventTimestamp" -> FormatRFC3339(e.ts)
       [] k = "timestamp" -> FormatRFC3339(Now)
       [] OTHER -> e.data]

BuildPayload(e) ==
  LET base == [k \in {"event", "eventTimestamp", "timestamp"} |->
                 CASE k = "event" -> e.name
                   [] k = "eventTimestamp" -> FormatRFC3339(e.ts)
                   [] OTHER -> FormatRFC3339(Now)]
  IN IF e.data # NilData THEN MapSet(base, "data", e.data) ELSE base

(***************************************************************************)
(* json.Marshal fails on a value that has no JSON form; http.NewRequest    *)
(* fails on a method that is not a token; client.Do fails at once on a URL *)
(* without a scheme.                                                       *)
(***************************************************************************)
MarshalFails(p) == "data" \in DOMAIN p /\ p["data"] = BadData

(***************************************************************************)
(* json.Marshal of a map: the members in the sorted order of their keys.   *)
(***************************************************************************)
SortedKeys == <<"data", "event", "eventTimestamp", "timestamp">>

RECURSIVE Members(_, _)
Members(p, keys) ==
  IF keys = <<>> THEN <<>>
  ELSE (IF Head(keys) \in DOMAIN p THEN <<<<Head(keys), p[Head(keys)]>>>> ELSE <<>>)
         \o Members(p, Tail(keys))

Marshal(p) == Members(p, SortedKeys)

ValidMethod(m) == m \in {"POST", "PUT"}

HasScheme(u) == u = GoodURL

(***************************************************************************)
(* io.ReadAll returns what it read, all of the body or, on a read error    *)
(* that sendWebhook discards, the part read before the error.              *)
(***************************************************************************)
ReadAll(body, n) == SubSeq(body, 1, n)

(***************************************************************************)
(* The event-name binding of Handle (src/unnamed/part_000 only).           *)
(***************************************************************************)
(* Mutant: the binding is compared even when it is empty. *)
IgnoredEvenUnbound(im, c, e) == im = "part0" /\ e.name # c.EventName

Ignored(im, c, e) == im = "part0" /\ c.EventName # "" /\ e.name # c.EventName

(* Mutant: Handle reports the failure of a dispatch to its caller. *)
HandleResultOfDispatch ==
  IF \E x \in BagToSet(dispatches) :
       \E i \in DOMAIN x.logs : x.logs[i].level = "error"
  THEN "error" ELSE "nil"

HandleResult == "nil"

HandleLog(c, e) ==
  [level |-> "debug", msg |-> "handling event", event_name |-> e.name,
   webhook_url |-> c.URL]

NoRequest ==
  [method |-> "", url |-> "", headers |-> EmptyMap, body |-> <<>>, timeout |-> 0]

NoResponse == [status |-> 0, body |-> <<>>]

NewCall(e, pc, ret, logs) ==
  [event |-> e, pc |-> pc, ret |-> ret, logs |-> logs]

BagAdd(B, x) == B (+) SetToBag({x})

BagReplace(B, old, new) == (B (-) SetToBag({old})) (+) SetToBag({new})

NewDispatch(e) ==
  [event |-> e, pc |-> "start", payload |-> EmptyMap, attempts |-> 0,
   req |-> NoRequest, resp |-> NoResponse, logs |-> <<>>]

MarshalErrorMsg(im) ==
  IF im = "module" THEN "JSON serialization failed for webhook payload"
  ELSE "failed to marshal webhook payload"

SuccessLog(c, e, status) ==
  [level |-> "debug", msg |-> "webhook sent successfully", event |-> e.name,
   status |-> status, url |-> c.URL]

WarnLog(c, e, status, body) ==
  [level |-> "warn", msg |-> "webhook returned non-2xx status", event |-> e.name,
   status |-> status, url |-> c.URL, response |-> body]

SendErrorLog(c, e, cause) ==
  [level |-> "error", msg |-> "failed to send webhook", event |-> e.name,
   url |-> c.URL, error |-> cause]

(* Mutant: the lower bound of the success range is exclusive. *)
IsSuccessAbove200(status) == status > 200 /\ status < 300

IsSuccess(status) == status >= 200 /\ status < 300

ResponseLog(c, e, status, body) ==
  IF IsSuccess(status) THEN SuccessLog(c, e, status) ELSE WarnLog(c, e, status, body)

(***************************************************************************)
(* http.Client arms a deadline only for a positive Timeout.                *)
(***************************************************************************)
HasDeadline(t) == t > 0

Init ==
  /\ impl \in Impls
  /\ phase = "new"
  /\ cfg = ZeroConfig
  /\ cfgErr = ""
  /\ instLog = <<>>
  /\ calls = EmptyBag
  /\ dispatches = EmptyBag

UnmarshalCaddyfile ==
  /\ phase = "new"
  /\ \E args \in ArgLists, block \in Blocks :
       LET r == Unmarshal(impl, cfg, args, block)
       IN /\ cfg' = r.cfg
          /\ cfgErr' = r.err
          /\ phase' = CASE r.status = "ok" -> "configured"
                        [] r.status = "err" -> "rejected"
                        [] OTHER -> "panicked"
  /\ UNCHANGED <<impl, instLog, calls, dispatches>>

LoadJSON ==
  /\ phase = "new"
  /\ \E c \in JSONConfigs(impl) : cfg' = c
  /\ phase' = "configured"
  /\ UNCHANGED <<impl, cfgErr, instLog, calls, dispatches>>

Provision ==
  /\ phase = "configured"
  /\ cfg' = ProvisionConfig(cfg)
  /\ instLog' = instLog \o ProvisionLog(impl)
  /\ phase' = "active"
  /\ UNCHANGED <<impl, cfgErr, calls, dispatches>>

(***************************************************************************)
(* Handle up to the go statement: the binding check, the debug record and  *)
(* the spawn of sendWebhook.  An ignored event returns at once.            *)
(***************************************************************************)
Handle ==
  /\ phase = "active"
  /\ BagCardinality(calls) < MaxEvents
  /\ \E e \in Events :
       IF Ignored(impl, cfg, e)
       THEN /\ calls' = BagAdd(calls, NewCall(e, "returned", HandleResult, <<>>))
            /\ UNCHANGED dispatches
       ELSE /\ dispatches' = BagAdd(dispatches, NewDispatch(e))
            /\ calls' = BagAdd(calls, NewCall(e, "spawned", "", <<HandleLog(cfg, e)>>))
  /\ UNCHANGED <<impl, phase, cfg, cfgErr, instLog>>

(***************************************************************************)
(* Handle's return after the go statement.                                 *)
(***************************************************************************)
HandleReturn(c) ==
  /\ BagIn(c, calls)
  /\ c.pc = "spawned"
  /\ calls' = BagReplace(calls, c, [c EXCEPT !.pc = "returned", !.ret = HandleResult])
  /\ UNCHANGED <<impl, phase, cfg, cfgErr, instLog, dispatches>>

(***************************************************************************)
(* sendWebhook from its start to the call of client.Do.                    *)
(***************************************************************************)
SendWebhook(x) ==
  /\ BagIn(x, dispatches)
  /\ x.pc = "start"
  /\ LET e == x.event
         p == BuildPayload(e)
     IN IF MarshalFails(p)
        THEN dispatches' = BagReplace(dispatches, x,
               [x EXCEPT !.pc = "done", !.payload = p,
                         !.logs = Append(@, [level |-> "error",
                                             msg |-> MarshalErrorMsg(impl),
                                             event |-> e.name, error |-> "marshal"])])
        ELSE IF ~ValidMethod(cfg.Method)
        THEN dispatches' = BagReplace(dispatches, x,
               [x EXCEPT !.pc = "done", !.payload = p,
                         !.logs = Append(@, [level |-> "error",
                                             msg |-> "failed to create webhook request",
                                             event |-> e.name, error |-> "invalid method"])])
        ELSE \E ord \in Orders(DOMAIN cfg.Headers) :
               LET r == [method |-> cfg.Method, url |-> cfg.URL,
                         headers |-> RequestHeaders(impl, cfg.Headers, ord),
                         body |-> Marshal(p), timeout |-> cfg.Timeout]
               IN IF ~HasScheme(cfg.URL)
                  THEN dispatches' = BagReplace(dispatches, x,
                         [x EXCEPT !.pc = "done", !.payload = p, !.req = r,
                                   !.attempts = @ + 1,
                                   !.logs = Append(@, SendErrorLog(cfg, e,
                                                     "unsupported protocol scheme"))])
                  ELSE dispatches' = BagReplace(dispatches, x,
                         [x EXCEPT !.pc = "inflight", !.payload = p, !.req = r,
                                   !.attempts = @ + 1])
  /\ UNCHANGED <<impl, phase, cfg, cfgErr, instLog, calls>>

(* Mutant: a transport error is logged and the request is tried again. *)
DoFailsThenRetries(x) ==
  /\ BagIn(x, dispatches)
  /\ x.pc = "inflight"
  /\ x.attempts < 3
  /\ dispatches' = BagReplace(dispatches, x,
       [x EXCEPT !.pc = "start",
                 !.logs = Append(@, SendErrorLog(cfg, x.event, "connection refused"))])
  /\ UNCHANGED <<impl, phase, cfg, cfgErr, instLog, calls>>

(***************************************************************************)
(* client.Do returns a transport error (refused, reset, TLS).              *)
(***************************************************************************)
DoFails(x) ==
  /\ BagIn(x, dispatches)
  /\ x.pc = "inflight"
  /\ dispatches' = BagReplace(dispatches, x,
       [x EXCEPT !.pc = "done",
                 !.logs = Append(@, SendErrorLog(cfg, x.event, "connection refused"))])
  /\ UNCHANGED <<impl, phase, cfg, cfgErr, instLog, calls>>

(***************************************************************************)
(* The client's deadline expires before the response headers arrive.       *)
(***************************************************************************)
DoTimesOut(x) ==
  /\ BagIn(x, dispatches)
  /\ x.pc = "inflight"
  /\ HasDeadline(x.req.timeout)
  /\ dispatches' = BagReplace(dispatches, x,
       [x EXCEPT !.pc = "done",
                 !.logs = Append(@, SendErrorLog(cfg, x.event, "Client.Timeout exceeded"))])
  /\ UNCHANGED <<impl, phase, cfg, cfgErr, instLog, calls>>

(***************************************************************************)
(* client.Do returns a response; the body is read and the outcome logged.  *)
(***************************************************************************)
DoResponds(x) ==
  /\ BagIn(x, dispatches)
  /\ x.pc = "inflight"
  /\ \E status \in Statuses, full \in Bodies :
       \E n \in 0..Len(full) :
         dispatches' = BagReplace(dispatches, x,
           [x EXCEPT !.pc = "done",
                     !.resp = [status |-> status, body |-> full],
                     !.logs = Append(@, ResponseLog(cfg, x.event, status,
                                                   ReadAll(full, n)))])
  /\ UNCHANGED <<impl, phase, cfg, cfgErr, instLog, calls>>

Next ==
  \/ UnmarshalCaddyfile
  \/ LoadJSON
  \/ Provision
  \/ Handle
  \/ \E c \in BagToSet(calls) : HandleReturn(c)
  \/ \E x \in BagToSet(dispatches) : SendWebhook(x)
  \/ \E x \in BagToSet(dispatches) : DoFails(x)
  \/ \E x \in BagToSet(dispatches) : DoTimesOut(x)
  \/ \E x \in BagToSet(dispatches) : DoResponds(x)

Spec == Init /\ [][Next]_vars

(***************************************************************************)
(* The only thing the code guarantees to happen to a request in flight is  *)
(* the expiry of the client's deadline, when there is one.                 *)
(***************************************************************************)
FairSpec == Spec /\ WF_vars(\E x \in BagToSet(dispatches) : DoTimesOut(x))

(***************************************************************************)
(* Vocabulary of the properties.                                           *)
(***************************************************************************)
Calls == BagToSet(calls)

Dispatches == BagToSet(dispatches)

Sent(x) == x.attempts > 0

GotResponse(x) == x.resp.status # 0

TransportFailed(x) == x.pc = "done" /\ Sent(x) /\ ~GotResponse(x)

IsPrefix(a, b) == Len(a) <= Len(b) /\ a = SubSeq(b, 1, Len(a))

LogsAt(x, lvl) == SelectSeq(x.logs, LAMBDA r : r.level = lvl)

Bound(e) == cfg.EventName # "" /\ e.name # cfg.EventName

CountIn(B, S) == BagCardinality([y \in S |-> B[y]])

CallsOf(e) == CountIn(calls, {c \in Calls : c.event = e})

DispatchesOf(e) == CountIn(dispatches, {x \in Dispatches : x.event = e})

(***************************************************************************)
(* C1: Handle returns nil without waiting for the dispatch it spawned: a   *)
(* call that has spawned its dispatch can return whatever state the        *)
(* dispatches are in, and every returned call returned nil, whatever the   *)
(* outcome of the dispatches.                                              *)
(***************************************************************************)
C1_HandleReturnsNilWithoutWaiting ==
  \A c \in Calls :
    /\ c.pc = "returned" => c.ret = "nil"
    /\ c.pc = "spawned" => ENABLED HandleReturn(c)

C1_Witness ==
  /\ Calls # {}
  /\ \A c \in Calls : c.pc = "returned"
  /\ ~HasDeadline(cfg.Timeout)
  /\ \E x \in Dispatches, y \in Dispatches :
       /\ x.pc = "inflight"
       /\ y.pc = "done" /\ LogsAt(y, "error") # <<>>

(***************************************************************************)
(* C2: whenever a dispatch exists, the URL of the instance is not empty.   *)
(***************************************************************************)
C2_URLNonEmptyAtDispatch ==
  Dispatches # {} => cfg.URL # ""

(***************************************************************************)
(* C3: under a non-empty binding, Handle of an event of another name       *)
(* spawns no dispatch; Handle of any other event spawns exactly one, for   *)
(* that event: for each event there are as many dispatches as calls when   *)
(* the event passes the binding, and none when it does not.                *)
(***************************************************************************)
C3_BindingFiltersDispatch ==
  \A e \in Events :
    DispatchesOf(e) = (IF Bound(e) THEN 0 ELSE CallsOf(e))

C3_Witness ==
  /\ cfg.EventName = "cert_obtained"
  /\ \E c \in Calls, f \in Calls :
       /\ c.event.name = "cert_renewed" /\ DispatchesOf(c.event) = 0
       /\ f.event.name = "cert_obtained" /\ DispatchesOf(f.event) = 1
  /\ \E x \in Dispatches : Sent(x)

C5_ConfiguredHeadersWin ==
  \A x \in Dispatches :
    Sent(x) =>
      LET h == x.req.headers
      IN /\ \A k \in DOMAIN cfg.Headers :
              /\ CanonicalMIMEHeaderKey(k) \in DOMAIN h
              /\ h[CanonicalMIMEHeaderKey(k)] = cfg.Headers[k]
         /\ (\A k \in DOMAIN cfg.Headers : CanonicalMIMEHeaderKey(k) # "Content-Type")
              => /\ "Content-Type" \in DOMAIN h
                 /\ h["Content-Type"] = "application/json"

C7_InFlightEventuallyDone ==
  <>[](\A x \in Dispatches : x.pc # "inflight")

(***************************************************************************)
(* C8: the payload of a dispatch has the key data exactly when the event   *)
(* carried data, with the event's data as its value; the keys event,       *)
(* eventTimestamp and timestamp are always there and event is the event's  *)
(* name; the body of the request is that payload serialized.               *)
(***************************************************************************)
C8_PayloadDataIffPresent ==
  \A x \in Dispatches :
    x.pc # "start" =>
      LET p == x.payload
          e == x.event
      IN /\ ("data" \in DOMAIN p) <=> (e.data # NilData)
         /\ "data" \in DOMAIN p => p["data"] = e.data
         /\ {"event", "eventTimestamp", "timestamp"} \subseteq DOMAIN p
         /\ p["event"] = e.name
         /\ Sent(x) =>
              /\ \A i \in DOMAIN x.req.body :
                   x.req.body[i][1] \in DOMAIN p /\ x.req.body[i][2] = p[x.req.body[i][1]]
              /\ \A k \in DOMAIN p : \E i \in DOMAIN x.req.body : x.req.body[i][1] = k

C8_Witness ==
  \E x \in Dispatches, y \in Dispatches :
    /\ Sent(x) /\ x.event.data = NilData /\ Len(x.req.body) = 3
    /\ Sent(y) /\ y.event.data = GoodData /\ Len(y.req.body) = 4

(***************************************************************************)
(* C9: Provision leaves the URL as it was, keeps a configured method or    *)
(* sets POST, keeps a configured timeout or sets 30 seconds for zero, and  *)
(* keeps the configured headers or makes an empty map; after it no step    *)
(* changes the configuration, and every request is built from it.          *)
(***************************************************************************)
RequestUsesConfig(c, r) ==
  /\ r.method = c.Method
  /\ r.url = c.URL
  /\ r.timeout = c.Timeout
  /\ \A k \in DOMAIN c.Headers : CanonicalMIMEHeaderKey(k) \in DOMAIN r.headers
  /\ \A k \in DOMAIN r.headers :
       \/ k = "Content-Type" /\ r.headers[k] = "application/json"
       \/ k = "User-Agent" /\ r.headers[k] = "Caddy Event Webhook"
       \/ \E ck \in DOMAIN c.Headers :
            CanonicalMIMEHeaderKey(ck) = k /\ r.headers[k] = c.Headers[ck]

C10_UnmarshalNeverPanics == phase # "panicked"

====
